---- MODULE Spec2Model ----
(***************************************************************************)
(* Membership application workflow of the backend                          *)
(* (src/backend/src/applications): the transition table of fsm.ts, the     *)
(* role middleware of common/middleware, and the request handlers of       *)
(* applications/routes.ts running against the relational store.            *)
(*                                                                         *)
(* The store is PostgreSQL behind Prisma (migration.sql, README.md).  No   *)
(* source line sets an isolation level, so an interactive transaction      *)
(* (prisma.$transaction(async tx => ...)) runs READ COMMITTED: a read in   *)
(* the transaction sees the latest committed row and takes no lock; an     *)
(* UPDATE takes the row lock, waits for a concurrent writer of the row to  *)
(* end, and then overwrites the listed columns of the latest committed     *)
(* row; the writes of the transaction become visible together at COMMIT    *)
(* and not at all when the callback throws.                                *)
(*                                                                         *)
(* Node runs a handler without interruption between two awaits, so one     *)
(* step of the model is one store call together with the synchronous code  *)
(* that follows it.                                                        *)
(***************************************************************************)
EXTENDS Naturals, Sequences, FiniteSets

\* Bounds of the model.
MaxRequests == 4

VARIABLES
    apps,     \* MembershipApplication table: apps[id] is the committed row
    events,   \* ApplicationEvent table: events[id] is the committed log of application id
    reqs,     \* the requests in flight, one per slot
    resp,     \* the response the last step sent, if it sent one
    issued    \* number of requests received so far

vars == <<apps, events, reqs, resp, issued>>

\* Two requests can be in flight at a time.
Slots == {1, 2}

----------------------------------------------------------------------------
\* Enumerations of the schema.

AppState == {"DRAFT", "SUBMITTED", "REGION_REVIEW", "REQUESTED_CHANGES",
             "NATIONAL_REVIEW", "APPROVED", "REJECTED"}

Transition == {"submit", "request_info", "region_approve", "national_approve", "reject"}

Role == {"ADMIN", "NATIONAL_SECRETARIAT", "REGIONAL_SECRETARIAT", "COMPANY_REP", "MEMBER"}

\* Reference data the workflow reads but never writes.
Regions == {"R1", "R2"}
Companies == {"c1", "c2"}

\* req.user as the role middleware finds it: a principal {id, role, regionId}, or
\* undefined ("none").
NoUser == "none"
UserIds == {"admin", "nat", "regA", "repA", "member"}

roleOf == [u \in UserIds |->
            CASE u = "admin" -> "ADMIN"
              [] u = "nat" -> "NATIONAL_SECRETARIAT"
              [] u = "regA" -> "REGIONAL_SECRETARIAT"
              [] u = "repA" -> "COMPANY_REP"
              [] OTHER -> "MEMBER"]

regionOf == [u \in UserIds |-> IF u = "regA" THEN "R1" ELSE "none"]

\* Company.ownerUserId
ownerUserId == [c \in Companies |-> IF c = "c1" THEN "repA" ELSE "other"]

\* The bodies {companyId, regionId} POST / is called with.
CreateInputs == {<<"c1", "R1">>, <<"c2", "R2">>}

\* A nullable column is the empty set (NULL) or a singleton.
NULL == {}
Some(v) == {v}

\* req.body.reasonRejected of a reject request: absent, empty, or a text.
Undefined == "undefined"
ReasonInputs == {Undefined, "", "Incomplete documents"}

----------------------------------------------------------------------------
\* fsm.ts

\* allowed with REJECTED reopened by submit.
allowedReopen ==
    [s \in AppState |->
        CASE s = "DRAFT" -> {"submit"}
          [] s = "SUBMITTED" -> {"request_info", "region_approve", "reject"}
          [] s = "REGION_REVIEW" -> {"request_info", "region_approve", "reject"}
          [] s = "REQUESTED_CHANGES" -> {"submit"}
          [] s = "NATIONAL_REVIEW" -> {"national_approve", "reject"}
          [] s = "APPROVED" -> {}
          [] s = "REJECTED" -> {"submit"}]

\* allowed with no way out of REQUESTED_CHANGES.
allowedNoResubmit ==
    [s \in AppState |->
        CASE s = "DRAFT" -> {"submit"}
          [] s = "SUBMITTED" -> {"request_info", "region_approve", "reject"}
          [] s = "REGION_REVIEW" -> {"request_info", "region_approve", "reject"}
          [] s = "REQUESTED_CHANGES" -> {}
          [] s = "NATIONAL_REVIEW" -> {"national_approve", "reject"}
          [] s = "APPROVED" -> {}
          [] s = "REJECTED" -> {}]

allowed ==
    [s \in AppState |->
        CASE s = "DRAFT" -> {"submit"}
          [] s = "SUBMITTED" -> {"request_info", "region_approve", "reject"}
          [] s = "REGION_REVIEW" -> {"request_info", "region_approve", "reject"}
          [] s = "REQUESTED_CHANGES" -> {"submit"}
          [] s = "NATIONAL_REVIEW" -> {"national_approve", "reject"}
          [] s = "APPROVED" -> {}
          [] s = "REJECTED" -> {}]

can(state, action) == action \in allowed[state]

\* nextState with region_approve leading to REGION_REVIEW.
nextStateRegionReview ==
    [a \in Transition |->
        CASE a = "submit" -> "SUBMITTED"
          [] a = "request_info" -> "REQUESTED_CHANGES"
          [] a = "region_approve" -> "REGION_REVIEW"
          [] a = "national_approve" -> "APPROVED"
          [] a = "reject" -> "REJECTED"]

\* routes.ts, transition(): the state an action leads to.
nextState ==
    [a \in Transition |->
        CASE a = "submit" -> "SUBMITTED"
          [] a = "request_info" -> "REQUESTED_CHANGES"
          [] a = "region_approve" -> "NATIONAL_REVIEW"
          [] a = "national_approve" -> "APPROVED"
          [] a = "reject" -> "REJECTED"]

----------------------------------------------------------------------------
\* Role middleware.

\* authenticateToken: req.user is the active user the bearer token names; without a
\* valid token of an active user the request is answered 401 and req.user stays
\* undefined.  A token is modelled by the id of the user it was issued to.
authenticateToken(token) == IF token \in UserIds THEN token ELSE NoUser

\* The routes that list authenticateToken before requireRole: POST / does (routes.ts
\* line 17); the five transition routes list requireRole alone, and app.ts installs no
\* middleware that sets req.user.
routeAuthenticates == [a \in Transition \cup {"create"} |-> a = "create"]

\* req.user as the route's own middleware leaves it for a request carrying the bearer
\* token: set by authenticateToken where the route lists it, undefined elsewhere.
reqUser(a, token) == IF routeAuthenticates[a] THEN authenticateToken(token) ELSE NoUser

\* The transition handlers below take req.user as requireRole finds it, an input that
\* ranges over every user and NoUser: the workflow is modelled for a deployment whose
\* middleware establishes the principal (rbac.ts line 7) as well as for the routes as
\* written.

\* requireRole checking only that req.user is set.
requireRoleAnyUser(roles, user) == IF user = NoUser THEN 401 ELSE 0

\* requireRole(...roles): 401 without req.user, 403 when the role is not listed,
\* otherwise 0 (next()).
requireRole(roles, user) ==
    IF user = NoUser THEN 401
    ELSE IF roleOf[user] \notin roles THEN 403
    ELSE 0

\* The roles each transition route lists.
routeRoles ==
    [a \in Transition |->
        CASE a = "submit" -> {"COMPANY_REP", "ADMIN"}
          [] a = "request_info" -> {"REGIONAL_SECRETARIAT", "NATIONAL_SECRETARIAT", "ADMIN"}
          [] a = "region_approve" -> {"REGIONAL_SECRETARIAT", "ADMIN"}
          [] a = "national_approve" -> {"NATIONAL_SECRETARIAT", "ADMIN"}
          [] a = "reject" -> {"REGIONAL_SECRETARIAT", "NATIONAL_SECRETARIAT", "ADMIN"}]

\* POST / open to every role.
createRolesAnyRole == Role

\* The roles POST / lists.
createRoles == {"COMPANY_REP", "ADMIN"}

----------------------------------------------------------------------------
\* Rows, requests and responses.

NoRow == [companyId |-> "none", regionId |-> "none", state |-> "none",
          reasonRejected |-> NULL, submittedAt |-> NULL, decidedAt |-> NULL]

IdleReq == [pc |-> "idle", action |-> "none", user |-> NoUser, appId |-> 0,
            reason |-> Undefined, seen |-> NoRow, seenLen |-> 0, date |-> 0,
            ua |-> NoRow]

NoResp == [action |-> "none", user |-> NoUser, appId |-> 0, status |-> 0, message |-> "",
           from |-> "none", seenLen |-> 0, state |-> "none"]

Exists(id) == id \in 1..Len(apps)

\* A request received is handled in the first free slot.
Free(s) == reqs[s].pc = "idle" /\ \A q \in Slots : q < s => reqs[q].pc # "idle"

\* Locked with a lock on the whole table instead of the row.
LockedTable(id) == \E s \in Slots : reqs[s].pc = "event"

\* The row lock of application id is held by a transaction that has updated the row
\* and has neither committed nor rolled back.
Locked(id) == \E s \in Slots : reqs[s].appId = id /\ reqs[s].pc = "event"

\* The ids a request can name: those of the stored applications and one that is unknown.
AppIds == 1..(Len(apps) + 1)

\* The wall clock (new Date(), CURRENT_TIMESTAMP): time passes with every request
\* received, so two reads with no request received between them return the same
\* instant.
now == issued

\* A response: who asked for what (action, req.user, :id), the status and message
\* sent, what the handler had loaded (the state of the row and the length of its log,
\* "none" when it had loaded nothing), and the state of the application in the body
\* (when the body is an application).
Response(r, status, message, body) ==
    [action |-> r.action, user |-> r.user, appId |-> r.appId, status |-> status,
     message |-> message, from |-> r.seen.state, seenLen |-> r.seenLen,
     state |-> body.state]

EmptyStore ==
    /\ apps = << >>
    /\ events = << >>
    /\ reqs = [s \in Slots |-> IdleReq]
    /\ resp = NoResp
    /\ issued = 0

Init == EmptyStore

----------------------------------------------------------------------------
\* routes.ts, POST / : authenticateToken establishes req.user, requireRole checks it,
\* and the handler inserts a DRAFT row.
PostCreate(token, companyId, regionId) ==
    /\ issued < MaxRequests
    /\ issued' = issued + 1
    /\ LET user == reqUser("create", token)
           denied == requireRole(createRoles, user)
           r == [IdleReq EXCEPT !.action = "create", !.user = user, !.appId = Len(apps) + 1]
           row == [NoRow EXCEPT !.companyId = companyId, !.regionId = regionId,
                                !.state = "DRAFT"]
       IN  IF denied # 0
           THEN /\ resp' = Response(r, denied, "denied", NoRow)
                /\ UNCHANGED <<apps, events, reqs>>
           ELSE /\ apps' = Append(apps, row)
                /\ events' = Append(events, << >>)
                /\ resp' = Response(r, 201, "Application draft created successfully", row)
                /\ UNCHANGED reqs

\* What a handler keeps of the row it has loaded, with the Date it builds its update with.
Loaded(r) ==
    [r EXCEPT !.pc = "update", !.seen = apps[r.appId], !.seenLen = Len(events[r.appId]),
              !.date = now']

\* POST /:id/submit: requireRole is the only middleware; findUnique and can() run
\* before the transaction is opened.
PostSubmit(s, user, appId) ==
    /\ issued < MaxRequests
    /\ Free(s)
    /\ issued' = issued + 1
    /\ LET denied == requireRole(routeRoles["submit"], user)
           r == [IdleReq EXCEPT !.action = "submit", !.user = user, !.appId = appId]
       IN  IF denied # 0
           THEN /\ resp' = Response(r, denied, "denied", NoRow)
                /\ UNCHANGED reqs
           ELSE IF ~Exists(appId)
           THEN /\ resp' = Response(r, 404, "Not found", NoRow)
                /\ UNCHANGED reqs
           ELSE IF ~can(apps[appId].state, "submit")
           THEN /\ resp' = Response(Loaded(r), 409, "Invalid transition", NoRow)
                /\ UNCHANGED reqs
           ELSE /\ reqs' = [reqs EXCEPT ![s] = Loaded(r)]
                /\ resp' = NoResp
    /\ UNCHANGED <<apps, events>>

\* POST /:id/request-info, region-approve, national-approve, reject: requireRole, then
\* transition(): findUnique and can() run inside the transaction; a throw rolls the
\* (still empty) transaction back and the route's catch answers 409 with e.message.
PostTransition(s, action, user, appId, reason) ==
    /\ issued < MaxRequests
    /\ Free(s)
    /\ issued' = issued + 1
    /\ LET denied == requireRole(routeRoles[action], user)
           r == [IdleReq EXCEPT !.action = action, !.user = user, !.appId = appId,
                                !.reason = reason]
       IN  IF denied # 0
           THEN /\ resp' = Response(r, denied, "denied", NoRow)
                /\ UNCHANGED reqs
           ELSE IF ~Exists(appId)
           THEN /\ resp' = Response(r, 409, "Not found", NoRow)
                /\ UNCHANGED reqs
           ELSE IF ~can(apps[appId].state, action)
           THEN /\ resp' = Response(Loaded(r), 409, "Invalid transition", NoRow)
                /\ UNCHANGED reqs
           ELSE /\ reqs' = [reqs EXCEPT ![s] = Loaded(r)]
                /\ resp' = NoResp
    /\ UNCHANGED <<apps, events>>

\* The row tx.membershipApplication.update writes: the listed columns over the latest
\* committed row.
SubmitData(r, row) ==
    [row EXCEPT !.state = "SUBMITTED", !.submittedAt = Some(r.date)]

TransitionData(r, row) ==
    [row EXCEPT !.state = nextState[r.action],
                !.decidedAt = IF r.action \in {"national_approve", "reject"}
                              THEN Some(r.date) ELSE r.seen.decidedAt,
                !.reasonRejected = IF r.action = "reject"
                                   THEN Some(IF r.reason = Undefined THEN "Not specified"
                                             ELSE r.reason)
                                   ELSE r.seen.reasonRejected]

\* tx.membershipApplication.update: waits for the row lock, then writes in the
\* transaction.
Update(s) ==
    LET r == reqs[s] IN
    /\ r.pc = "update"
    /\ ~Locked(r.appId)
    /\ reqs' = [reqs EXCEPT ![s] =
                  [r EXCEPT !.pc = "event",
                            !.ua = IF r.action = "submit"
                                   THEN SubmitData(r, apps[r.appId])
                                   ELSE TransitionData(r, apps[r.appId])]]
    /\ resp' = NoResp
    /\ UNCHANGED <<apps, events, issued>>

\* EventCreate with the submit handler writing no event.
EventCreateNotOnSubmit(s) ==
    LET r == reqs[s]
        ev == [action |-> r.action, actorId |-> r.user, at |-> now]
    IN
    /\ r.pc = "event"
    /\ apps' = [apps EXCEPT ![r.appId] = r.ua]
    /\ events' = IF r.action = "submit" THEN events
                 ELSE [events EXCEPT ![r.appId] = Append(@, ev)]
    /\ resp' = Response(r, 200, "", r.ua)
    /\ reqs' = [reqs EXCEPT ![s] = IdleReq]
    /\ UNCHANGED issued

\* EventCreate with the event written over the log of the application.
EventCreateRewrite(s) ==
    LET r == reqs[s]
        ev == [action |-> r.action, actorId |-> r.user, at |-> now]
    IN
    /\ r.pc = "event"
    /\ apps' = [apps EXCEPT ![r.appId] = r.ua]
    /\ events' = [events EXCEPT ![r.appId] = << ev >>]
    /\ resp' = Response(r, 200, "", r.ua)
    /\ reqs' = [reqs EXCEPT ![s] = IdleReq]
    /\ UNCHANGED issued

\* tx.applicationEvent.create, then the callback returns ua: the event row is written
\* with the store's timestamp, the transaction commits, both writes become visible and
\* the handler answers with the updated row.
EventCreate(s) ==
    LET r == reqs[s]
        ev == [action |-> r.action, actorId |-> r.user, at |-> now]
    IN
    /\ r.pc = "event"
    /\ apps' = [apps EXCEPT ![r.appId] = r.ua]
    /\ events' = [events EXCEPT ![r.appId] = Append(@, ev)]
    /\ resp' = Response(r, 200, "", r.ua)
    /\ reqs' = [reqs EXCEPT ![s] = IdleReq]
    /\ UNCHANGED issued

\* StoreFailure with the two writes issued outside a transaction: the update that
\* preceded the failing event insert stays.
StoreFailureNoRollback(s) ==
    LET r == reqs[s] IN
    /\ r.pc \in {"update", "event"}
    /\ resp' = IF r.action = "submit"
               THEN Response(r, 0, "no response", NoRow)
               ELSE Response(r, 409, "store error", NoRow)
    /\ reqs' = [reqs EXCEPT ![s] = IdleReq]
    /\ apps' = IF r.pc = "event" THEN [apps EXCEPT ![r.appId] = r.ua] ELSE apps
    /\ UNCHANGED <<events, issued>>

\* A store call of the transaction fails: the transaction rolls back.  transition()'s
\* callers catch and answer 409 with the error's message; the submit handler has no
\* catch, the rejection is unhandled and no response is sent.
StoreFailure(s) ==
    LET r == reqs[s] IN
    /\ r.pc \in {"update", "event"}
    /\ resp' = IF r.action = "submit"
               THEN Response(r, 0, "no response", NoRow)
               ELSE Response(r, 409, "store error", NoRow)
    /\ reqs' = [reqs EXCEPT ![s] = IdleReq]
    /\ UNCHANGED <<apps, events, issued>>

\* GET /:id/events: findMany({where: {applicationId}, orderBy: {at: "asc"}}) returns
\* the committed events of the application sorted by at; the order of events with
\* equal at is the store's choice, so the read has a set of possible results.
Permutations(n) ==
    {f \in [1..n -> 1..n] : \A i, j \in 1..n : i # j => f[i] # f[j]}

EventsRead(id) ==
    LET log == events[id]
        n == Len(log)
    IN  {[i \in 1..n |-> log[f[i]]] :
            f \in {g \in Permutations(n) :
                      \A i \in 1..n : i < n => log[g[i]].at <= log[g[i + 1]].at}}

\* The roles GET / and GET /:id list.
listRoles == {"ADMIN", "NATIONAL_SECRETARIAT", "REGIONAL_SECRETARIAT"}
getRoles == {"ADMIN", "NATIONAL_SECRETARIAT", "REGIONAL_SECRETARIAT", "COMPANY_REP"}

\* requireRegionScope, the middleware GET / names: a regional secretary who asks for
\* another region than their own is answered 403; everybody else passes.
requireRegionScope(user, regionQuery) ==
    IF user = NoUser THEN 401
    ELSE IF /\ roleOf[user] = "REGIONAL_SECRETARIAT"
            /\ regionQuery # Undefined
            /\ regionQuery # regionOf[user] THEN 403
    ELSE 0

\* GET /?regionId= : the ids of the applications findMany returns (the state filter of
\* the query only narrows the result and is left out).
List(token, regionQuery) ==
    LET user == authenticateToken(token)
        denied == requireRole(listRoles, user)
        scope == requireRegionScope(user, regionQuery)
        where == IF roleOf[user] = "REGIONAL_SECRETARIAT" THEN regionOf[user]
                 ELSE regionQuery
    IN  IF denied # 0 THEN [status |-> denied, ids |-> {}]
        ELSE IF scope # 0 THEN [status |-> scope, ids |-> {}]
        ELSE [status |-> 200,
              ids |-> {id \in 1..Len(apps) :
                          where = Undefined \/ apps[id].regionId = where}]

\* GET /:id : requireRole, findUnique, and for a company representative the lookup of
\* the company by owner.
GetById(user, id) ==
    LET denied == requireRole(getRoles, user) IN
    IF denied # 0 THEN [status |-> denied, body |-> NoRow]
    ELSE IF ~Exists(id) THEN [status |-> 404, body |-> NoRow]
    ELSE IF roleOf[user] = "COMPANY_REP" /\ ownerUserId[apps[id].companyId] # user
    THEN [status |-> 403, body |-> NoRow]
    ELSE [status |-> 200, body |-> apps[id]]

Next ==
    \/ \E u \in UserIds \cup {NoUser}, b \in CreateInputs : PostCreate(u, b[1], b[2])
    \/ \E s \in Slots, u \in UserIds \cup {NoUser}, id \in AppIds : PostSubmit(s, u, id)
    \/ \E s \in Slots, a \in Transition \ {"submit"}, u \in UserIds \cup {NoUser}, id \in AppIds :
         \E reason \in (IF a = "reject" THEN ReasonInputs ELSE {Undefined}) :
            PostTransition(s, a, u, id, reason)
    \/ \E s \in Slots : Update(s)
    \/ \E s \in Slots : EventCreate(s)
    \/ \E s \in Slots : StoreFailure(s)

Spec == Init /\ [][Next]_vars

\* At most one request in flight: the executions in which requests do not overlap.
InFlight == {s \in Slots : reqs[s].pc # "idle"}
SeqNext == Next /\ Cardinality(InFlight') <= 1
SeqSpec == Init /\ [][SeqNext]_vars

\* The server started against a store that already holds one application, in any
\* state of the AppState enum (rows written by earlier runs, seed data or an
\* operator), with the columns the workflow sets on the way to that state.
StoredRow(b, st) ==
    [companyId |-> b[1], regionId |-> b[2], state |-> st,
     reasonRejected |-> IF st = "REJECTED" THEN Some("Not specified") ELSE NULL,
     submittedAt |-> IF st = "DRAFT" THEN NULL ELSE Some(0),
     decidedAt |-> IF st \in {"APPROVED", "REJECTED"} THEN Some(0) ELSE NULL]

StoredInit ==
    /\ \E b \in CreateInputs, st \in AppState : apps = << StoredRow(b, st) >>
    /\ events = << << >> >>
    /\ reqs = [s \in Slots |-> IdleReq]
    /\ resp = NoResp
    /\ issued = 2

StoredSpec == StoredInit /\ [][Next]_vars

\* The server started against a store that holds two applications, of different
\* companies and regions: one submitted, the other still a draft.
TwoStoredInit ==
    /\ apps = << StoredRow(<<"c1", "R1">>, "SUBMITTED"), StoredRow(<<"c2", "R2">>, "DRAFT") >>
    /\ events = << << >>, << >> >>
    /\ reqs = [s \in Slots |-> IdleReq]
    /\ resp = NoResp
    /\ issued = 2

TwoStoredSpec == TwoStoredInit /\ [][Next]_vars

\* The server started against a store that holds one application in DRAFT, of the
\* company repA owns and of the region of regA, and handles its requests one at a time.
DraftInit ==
    /\ apps = << StoredRow(<<"c1", "R1">>, "DRAFT") >>
    /\ events = << << >> >>
    /\ reqs = [s \in Slots |-> IdleReq]
    /\ resp = NoResp
    /\ issued = 0

DraftSeqSpec == DraftInit /\ [][SeqNext]_vars
----------------------------------------------------------------------------
\* The workflow as specified: the transition table, the states no action leaves, and
\* the authorization rules.

TableLegal ==
    {<<"DRAFT", "submit">>,
     <<"SUBMITTED", "request_info">>, <<"SUBMITTED", "region_approve">>,
     <<"SUBMITTED", "reject">>,
     <<"REGION_REVIEW", "request_info">>, <<"REGION_REVIEW", "region_approve">>,
     <<"REGION_REVIEW", "reject">>,
     <<"REQUESTED_CHANGES", "submit">>,
     <<"NATIONAL_REVIEW", "national_approve">>, <<"NATIONAL_REVIEW", "reject">>}

TableNext(a) ==
    CASE a = "submit" -> "SUBMITTED"
      [] a = "request_info" -> "REQUESTED_CHANGES"
      [] a = "region_approve" -> "NATIONAL_REVIEW"
      [] a = "national_approve" -> "APPROVED"
      [] a = "reject" -> "REJECTED"
      [] OTHER -> "none"

Terminal == {"APPROVED", "REJECTED"}

RegionalActions == {"request_info", "region_approve", "reject"}

Unscoped == {"NATIONAL_SECRETARIAT", "ADMIN"}

Busy(s) == reqs[s].pc # "idle"

InvalidTransition(x) == x.status = 409 /\ x.message = "Invalid transition"

StoreFailed(x) == x.message \in {"store error", "no response"}

Failed(x) == StoreFailed(x) \/ x.status \in {401, 403, 404, 409}

\* A regional-secretariat actor whose region is not the region of application id.
OtherRegion(u, id) ==
    /\ u \in UserIds
    /\ roleOf[u] = "REGIONAL_SECRETARIAT"
    /\ Exists(id)
    /\ apps[id].regionId # regionOf[u]

\* A company representative who does not own the company of application id.
NotOwner(u, id) ==
    /\ u \in UserIds
    /\ roleOf[u] = "COMPANY_REP"
    /\ Exists(id)
    /\ ownerUserId[apps[id].companyId] # u

----------------------------------------------------------------------------
\* C1: a transition request that passed the role check and loaded an existing
\* application in state S goes on to its writes iff (S, A) is in the transition table:
\* it is answered 409 "Invalid transition" exactly when (S, A) is not in the table, a
\* request answered 200 was legal in the state it loaded, and the state it returns and
\* stores is the one the table maps its action to.  (A legal request can still end in
\* a store failure.)
C1_TransitionTable ==
    /\ \A s \in Slots : Busy(s) => <<reqs[s].seen.state, reqs[s].action>> \in TableLegal
    /\ resp.from # "none" =>
        /\ InvalidTransition(resp) <=> <<resp.from, resp.action>> \notin TableLegal
        /\ <<resp.from, resp.action>> \in TableLegal =>
              resp.status = 200 \/ StoreFailed(resp)
        /\ resp.status = 200 =>
              /\ <<resp.from, resp.action>> \in TableLegal
              /\ resp.state = TableNext(resp.action)
              /\ apps[resp.appId].state = TableNext(resp.action)

\* C1 witness: region_approve on an application stored in REGION_REVIEW succeeded and
\* the application is in NATIONAL_REVIEW.
C1_Witness ==
    /\ resp.status = 200
    /\ resp.from = "REGION_REVIEW"
    /\ resp.action = "region_approve"
    /\ apps[resp.appId].state = "NATIONAL_REVIEW"

\* C2: of two concurrent requests on one application with different actions, both
\* legal in the state S they loaded, only one succeeds: a request that loaded S is not
\* answered 200 when the first commit after its load was of a different action legal
\* in S.
C2_ConcurrentExclusive ==
    ( /\ resp.status = 200
      /\ resp.action \in Transition
      /\ Len(events[resp.appId]) >= resp.seenLen + 2 )
    => LET first == events[resp.appId][resp.seenLen + 1].action
       IN  ~(first # resp.action /\ <<resp.from, first>> \in TableLegal)

\* C3: once the stored state of an application is APPROVED or REJECTED, no step
\* changes it.
C3_TerminalForever ==
    [][\A id \in 1..Len(apps) :
          apps[id].state \in Terminal => apps'[id].state = apps[id].state]_vars

\* C4: a request (of any of the five actions, past the role check) that finds the
\* application in APPROVED or REJECTED is answered 409 "Invalid transition" and never
\* reaches its writes.
C4_TerminalRefuses ==
    /\ \A s \in Slots : Busy(s) => reqs[s].seen.state \notin Terminal
    /\ resp.from \in Terminal => InvalidTransition(resp)

\* C4 witness: reject on an APPROVED application was answered 409 "Invalid transition".
C4_Witness ==
    /\ resp.from = "APPROVED"
    /\ resp.action = "reject"
    /\ InvalidTransition(resp)
    /\ apps[resp.appId].state = "APPROVED"

\* C5: in every step the log of an application grows by exactly one event, the event
\* of the request answered 200 in that step, or does not change at all; a request
\* answered 200 appends its event; a denied, refused or failed request appends none.
C5_Step ==
    /\ \A id \in 1..Len(apps) :
        /\ events'[id] # events[id] =>
              /\ resp'.status = 200
              /\ resp'.appId = id
              /\ Len(events'[id]) = Len(events[id]) + 1
              /\ SubSeq(events'[id], 1, Len(events[id])) = events[id]
              /\ events'[id][Len(events'[id])].action = resp'.action
              /\ events'[id][Len(events'[id])].actorId = resp'.user
        /\ (resp'.status = 200 /\ resp'.appId = id) =>
              Len(events'[id]) = Len(events[id]) + 1
    /\ Failed(resp') => events' = events
    /\ Len(apps') > Len(apps) => events' = Append(events, << >>)

C5_OneEventPerSuccess == [][C5_Step]_vars

\* C5 witness: national_approve was answered 200 and the log of the application holds
\* one event more than when the request loaded it, the event of this request.
C5_Witness ==
    /\ resp.status = 200
    /\ resp.action = "national_approve"
    /\ Len(events[resp.appId]) = resp.seenLen + 1
    /\ events[resp.appId][resp.seenLen + 1].action = "national_approve"
    /\ events[resp.appId][resp.seenLen + 1].actorId = resp.user

\* C6: the row and the log of an application change together or not at all: a step
\* that changes the row appends one event, a step that appends an event stores the
\* state of the request answered 200 in that step, and a step in which a request fails
\* changes neither table.
C6_Step ==
    /\ \A id \in 1..Len(apps) :
        /\ apps'[id] # apps[id] => Len(events'[id]) = Len(events[id]) + 1
        /\ events'[id] # events[id] =>
              /\ resp'.status = 200
              /\ apps'[id].state = TableNext(resp'.action)
    /\ Failed(resp') => (apps' = apps /\ events' = events)

C6_NoPartialTransition == [][C6_Step]_vars

\* C6 witness: a transaction failed after its update and the stored application is
\* still in the state the request had loaded, with its log unchanged.
C6_Witness ==
    /\ StoreFailed(resp)
    /\ resp.action = "reject"
    /\ apps[resp.appId].state = "SUBMITTED"
    /\ Len(events[resp.appId]) = resp.seenLen

\* C7: a regional-secretariat actor of another region does not get request_info,
\* region_approve or reject past authorization on an application where the action is
\* legal: no such request reaches its writes or is answered 200.
C7_RegionScope ==
    /\ \A s \in Slots :
          (Busy(s) /\ reqs[s].action \in RegionalActions) =>
              ~OtherRegion(reqs[s].user, reqs[s].appId)
    /\ (resp.status = 200 /\ resp.action \in RegionalActions) =>
          ~OtherRegion(resp.user, resp.appId)

\* C8: a company representative who does not own the application's company does not
\* get submit past authorization: no such request reaches its writes or is answered
\* 200.
C8_SubmitOwner ==
    /\ \A s \in Slots :
          (Busy(s) /\ reqs[s].action = "submit") => ~NotOwner(reqs[s].user, reqs[s].appId)
    /\ (resp.status = 200 /\ resp.action = "submit") => ~NotOwner(resp.user, resp.appId)

\* C9: a national-secretariat or admin actor is never answered 403 for request_info,
\* region_approve or reject on an existing application where the action is legal.
C9_NationalUnscoped ==
    ( /\ resp.action \in RegionalActions
      /\ resp.user \in UserIds
      /\ roleOf[resp.user] \in Unscoped
      /\ Exists(resp.appId)
      /\ <<apps[resp.appId].state, resp.action>> \in TableLegal )
    => resp.status # 403

\* C10: national_approve gets past the role check only for national-secretariat and
\* admin: every other role is answered 403 before anything is loaded, no such request
\* reaches its writes, a response 200 that returns an APPROVED application answers a
\* national_approve of a national-secretariat or admin actor, every national_approve
\* event was written for such an actor, and an APPROVED application with events in its
\* log has a national_approve event among them.
C10_NationalApproveRoles ==
    /\ ( /\ resp.action = "national_approve"
         /\ resp.user \in UserIds
         /\ roleOf[resp.user] \notin Unscoped )
       => (resp.status = 403 /\ resp.from = "none")
    /\ (resp.status = 200 /\ resp.state = "APPROVED") =>
          (resp.action = "national_approve" /\ roleOf[resp.user] \in Unscoped)
    /\ \A s \in Slots :
          (Busy(s) /\ reqs[s].action = "national_approve") =>
              roleOf[reqs[s].user] \in Unscoped
    /\ \A id \in 1..Len(apps) :
        /\ \A i \in 1..Len(events[id]) :
              events[id][i].action = "national_approve" =>
                  roleOf[events[id][i].actorId] \in Unscoped
        /\ (apps[id].state = "APPROVED" /\ events[id] # << >>) =>
              \E i \in 1..Len(events[id]) : events[id][i].action = "national_approve"

\* C10 witness: a regional secretary asked for national_approve on an application in
\* NATIONAL_REVIEW and was answered 403; the application is still in NATIONAL_REVIEW.
C10_Witness ==
    /\ resp.action = "national_approve"
    /\ resp.user = "regA"
    /\ resp.status = 403
    /\ Exists(resp.appId)
    /\ apps[resp.appId].state = "NATIONAL_REVIEW"

\* C11: decidedAt is written once: in every step, a decidedAt that is set keeps its
\* value.
C11_DecidedAtOnce ==
    [][\A id \in 1..Len(apps) :
          apps[id].decidedAt # NULL => apps'[id].decidedAt = apps[id].decidedAt]_vars

\* C12: in every state reasonRejected is non-null iff the state is REJECTED, and a stored
\* reason is the payload's reason or the placeholder.
C12_ReasonIffRejected ==
    \A id \in 1..Len(apps) :
        /\ apps[id].reasonRejected # NULL <=> apps[id].state = "REJECTED"
        /\ apps[id].reasonRejected \in
              {NULL, Some("Not specified")} \cup {Some(x) : x \in ReasonInputs \ {Undefined}}

\* C13: submittedAt is set once: in every step, a submittedAt that is set keeps its
\* value, also when the step commits a re-submission from REQUESTED_CHANGES.
C13_SubmittedAtOnce ==
    [][\A id \in 1..Len(apps) :
          apps[id].submittedAt # NULL => apps'[id].submittedAt = apps[id].submittedAt]_vars

\* C14: in every state of every application decidedAt is set iff the state is APPROVED
\* or REJECTED.
C14_DecidedAtIffTerminal ==
    \A id \in 1..Len(apps) :
        apps[id].decidedAt # NULL <=> apps[id].state \in Terminal

\* C15: in every state the rejection reason is non-empty (set, and not the empty
\* string) iff the state is REJECTED.
C15_ReasonNonEmpty ==
    \A id \in 1..Len(apps) :
        (apps[id].reasonRejected # NULL /\ apps[id].reasonRejected # Some(""))
            <=> apps[id].state = "REJECTED"

\* The roles the specification authorizes for each action (region and ownership aside).
SpecRoles(a) ==
    CASE a = "submit" -> {"COMPANY_REP", "ADMIN"}
      [] a = "national_approve" -> {"NATIONAL_SECRETARIAT", "ADMIN"}
      [] OTHER -> {"REGIONAL_SECRETARIAT", "NATIONAL_SECRETARIAT", "ADMIN"}

NotFound(x) == x.message = "Not found"

\* C16: the checks run in the order load, authorization, legality: a transition request
\* of any principal on an unknown id fails with NotFound; a request by a role the
\* action is not open to, on an existing application, fails with Forbidden; and
\* InvalidTransition is answered only when the application exists and the role is one
\* the action is open to.
C16_CheckOrder ==
    (resp.action \in Transition /\ resp.user \in UserIds) =>
        /\ ~Exists(resp.appId) => NotFound(resp)
        /\ (Exists(resp.appId) /\ roleOf[resp.user] \notin SpecRoles(resp.action)) =>
              resp.status = 403
        /\ InvalidTransition(resp) =>
              (Exists(resp.appId) /\ roleOf[resp.user] \in SpecRoles(resp.action))

\* C17: a transition request that passed the route's role check is answered 404 when
\* the id is unknown, and 409 only when the action is illegal in the state the handler
\* loaded.
C17_NotFound404 ==
    (resp.action \in Transition /\ requireRole(routeRoles[resp.action], resp.user) = 0) =>
        /\ ~Exists(resp.appId) => resp.status = 404
        /\ resp.status = 409 =>
              (resp.from # "none" /\ <<resp.from, resp.action>> \notin TableLegal)

\* C18: a request whose store call failed ends in a response with status 500 or 503
\* (never 409, never without a response).
C18_StoreFailure5xx ==
    StoreFailed(resp) => resp.status \in {500, 503}

\* C19: for every application, the events read returns the events in the order in which
\* their transitions committed, whatever order the store gives events with equal
\* timestamps.
C19_ReadInCommitOrder ==
    \A id \in 1..Len(apps) : EventsRead(id) = {events[id]}

\* C20: the event log is append-only: in every step no log disappears and the previous
\* event sequence of each application is a prefix of the next one.
C20_AppendOnly ==
    [][/\ Len(events') >= Len(events)
       /\ \A id \in 1..Len(events) :
            /\ Len(events'[id]) >= Len(events[id])
            /\ SubSeq(events'[id], 1, Len(events[id])) = events[id]]_vars

\* C20 witness: a second transition of an application committed and was answered 200;
\* the log holds the earlier event, of another action, followed by the new one.
C20_Witness ==
    /\ resp.status = 200
    /\ Len(events[resp.appId]) = 2
    /\ events[resp.appId][1].action # resp.action
    /\ events[resp.appId][2].action = resp.action

\* C21: a step changes a stored application only by committing a transition answered
\* 200, and that transition changes only the state and: reasonRejected only if it is a
\* reject, decidedAt only if it is a national_approve or a reject, submittedAt only if
\* it is a submit; the company and the region never change.
C21_Frame ==
    [][\A id \in 1..Len(apps) :
          apps'[id] # apps[id] =>
              /\ resp'.status = 200 /\ resp'.appId = id
              /\ apps'[id].companyId = apps[id].companyId
              /\ apps'[id].regionId = apps[id].regionId
              /\ apps'[id].reasonRejected # apps[id].reasonRejected =>
                    resp'.action = "reject"
              /\ apps'[id].decidedAt # apps[id].decidedAt =>
                    resp'.action \in {"national_approve", "reject"}
              /\ apps'[id].submittedAt # apps[id].submittedAt =>
                    resp'.action = "submit"]_vars

\* C22: creation is open to company representatives and admins only and adds one
\* application in DRAFT with no submission timestamp, no decision timestamp, no
\* rejection reason and an empty log; it changes no other application and no log, a
\* refused creation changes nothing, no transition rule is consulted (creation succeeds
\* whatever the other applications are doing) and no step removes an application.
C22_Step ==
    /\ Len(apps') >= Len(apps)
    /\ Len(apps') > Len(apps) =>
        /\ resp'.action = "create" /\ resp'.status = 201
        /\ roleOf[resp'.user] \in {"COMPANY_REP", "ADMIN"}
        /\ Len(apps') = Len(apps) + 1
        /\ SubSeq(apps', 1, Len(apps)) = apps
        /\ apps'[Len(apps')].state = "DRAFT"
        /\ apps'[Len(apps')].submittedAt = NULL
        /\ apps'[Len(apps')].decidedAt = NULL
        /\ apps'[Len(apps')].reasonRejected = NULL
        /\ events' = Append(events, << >>)
    /\ resp'.action = "create" =>
        /\ resp'.status = 201 <=> Len(apps') > Len(apps)
        /\ resp'.status = 201 <=>
              (resp'.user \in UserIds /\ roleOf[resp'.user] \in {"COMPANY_REP", "ADMIN"})
        /\ resp'.status # 201 => (apps' = apps /\ events' = events)

C22_Creation == [][C22_Step]_vars

\* C22 witness: a company representative created an application while another
\* application was stored; the new application is a DRAFT with an empty log.
C22_Witness ==
    /\ resp.action = "create"
    /\ resp.status = 201
    /\ resp.user = "repA"
    /\ Len(apps) = 2
    /\ apps[2].state = "DRAFT"
    /\ events[2] = << >>

\* C23: neither the list nor the read by id shows a regional secretary an application
\* of another region or a company representative an application of a company they do
\* not own, and an admin or national secretary is shown every application by both.
C23_ReadScope ==
    \A u \in UserIds, id \in 1..Len(apps) :
        /\ (OtherRegion(u, id) \/ NotOwner(u, id)) =>
              /\ GetById(u, id).status # 200
              /\ \A q \in Regions \cup {Undefined} : id \notin List(u, q).ids
        /\ roleOf[u] \in Unscoped =>
              /\ GetById(u, id).status = 200
              /\ id \in List(u, Undefined).ids

\* C24: transitions on different applications are independent: a step changes the row
\* or the log of an application only by committing a request on that application, and
\* a request in flight on an application that no other request in flight names can
\* always take its next store step, whatever is in flight on other applications.
C24_Step ==
    \A id \in 1..Len(apps) :
        (apps'[id] # apps[id] \/ events'[id] # events[id]) =>
            (resp'.status = 200 /\ resp'.appId = id)

C24_NotBlocked ==
    \A s \in Slots :
        (Busy(s) /\ \A q \in Slots \ {s} : ~(Busy(q) /\ reqs[q].appId = reqs[s].appId))
            => ENABLED (Update(s) \/ EventCreate(s))

C24_Independent == [][C24_Step]_vars /\ []C24_NotBlocked

\* C24 witness: a transition on one application committed and was answered 200 while a
\* transaction on another application had updated its row and not yet committed.
C24_Witness ==
    /\ resp.status = 200
    /\ resp.action \in Transition
    /\ \E s \in Slots : reqs[s].pc = "event" /\ reqs[s].appId # resp.appId

\* C25: the approval path.  From DRAFT, submit by the representative who owns the
\* company, region_approve by the regional secretary of the application's region and
\* national_approve by a national secretary are each accepted and answered 200 with
\* the states SUBMITTED, NATIONAL_REVIEW and APPROVED; submittedAt is set after the
\* first step and decidedAt after the third; the log then holds exactly the three
\* events, in that order; a reject that follows is refused with InvalidTransition.
ApprovalPath == << "submit", "region_approve", "national_approve" >>

ApprovalStates == << "SUBMITTED", "NATIONAL_REVIEW", "APPROVED" >>

LogActions(id) == [i \in 1..Len(events[id]) |-> events[id][i].action]

\* The actor the path names for its step n on application id.
PathActor(n, u, id) ==
    /\ u \in UserIds
    /\ CASE n = 1 -> roleOf[u] = "COMPANY_REP" /\ ownerUserId[apps[id].companyId] = u
         [] n = 2 -> roleOf[u] = "REGIONAL_SECRETARIAT" /\ regionOf[u] = apps[id].regionId
         [] OTHER -> roleOf[u] = "NATIONAL_SECRETARIAT"

\* The rules refused the request answered by x.
Refused(x) == x.status \in {401, 403, 404} \/ InvalidTransition(x) \/ x.message = "Not found"

C25_ApprovalPath ==
    /\ \A n \in 1..3 :
         LogActions(1) = SubSeq(ApprovalPath, 1, n) =>
            /\ apps[1].state = ApprovalStates[n]
            /\ apps[1].submittedAt # NULL
            /\ (apps[1].decidedAt # NULL) <=> (n = 3)
    /\ \A n \in 1..3 :
         (/\ resp.action = ApprovalPath[n]
          /\ resp.appId = 1
          /\ PathActor(n, resp.user, 1)
          /\ resp.seenLen = n - 1
          /\ LogActions(1) = SubSeq(ApprovalPath, 1, Len(events[1]))
          /\ resp.status = 200)
            => (LogActions(1) = SubSeq(ApprovalPath, 1, n) /\ resp.state = ApprovalStates[n])
    /\ \A n \in 1..3 :
         (/\ resp.action = ApprovalPath[n]
          /\ resp.appId = 1
          /\ PathActor(n, resp.user, 1)
          /\ LogActions(1) = SubSeq(ApprovalPath, 1, n - 1))
            => ~Refused(resp)
    /\ (/\ resp.action = "reject"
        /\ resp.appId = 1
        /\ LogActions(1) = ApprovalPath
        /\ requireRole(routeRoles["reject"], resp.user) = 0)
          => InvalidTransition(resp)

\* C25 witness: the three steps were taken by the three actors and the reject that
\* followed was refused.
C25_Witness ==
    /\ LogActions(1) = ApprovalPath
    /\ \A n \in 1..3 : PathActor(n, events[1][n].actorId, 1)
    /\ apps[1].state = "APPROVED"
    /\ resp.action = "reject"
    /\ resp.appId = 1
    /\ InvalidTransition(resp)

\* C26: the log explains the state.  Replaying the actions of an application's log, in
\* order, from DRAFT through the transition table takes only legal steps and ends in
\* the application's stored state.
RECURSIVE Replay(_, _)
Replay(log, st) ==
    IF log = << >> THEN st
    ELSE IF << st, Head(log).action >> \in TableLegal
         THEN Replay(Tail(log), TableNext(Head(log).action))
         ELSE "illegal"

C26_LogExplainsState ==
    \A id \in 1..Len(apps) : Replay(events[id], "DRAFT") = apps[id].state

\* C27: of two submit requests that both loaded the application before either
\* committed, at most one succeeds: a submit answered 200 finds no submit committed on
\* the application since the handler loaded it.
C27_OneSubmitWins ==
    (resp.status = 200 /\ resp.action = "submit") =>
        \A i \in (resp.seenLen + 1)..(Len(events[resp.appId]) - 1) :
            events[resp.appId][i].action # "submit"

\* C28: an application created through POST / is never in state REGION_REVIEW, because
\* no action maps to it, although the table of legal actions has a row for it.
C28_RegionReviewUnreachable ==
    /\ \A a \in Transition : nextState[a] # "REGION_REVIEW"
    /\ allowed["REGION_REVIEW"] # {}
    /\ \A id \in 1..Len(apps) : apps[id].state # "REGION_REVIEW"
    /\ \A s \in Slots : Busy(s) => reqs[s].ua.state # "REGION_REVIEW"
    /\ resp.state # "REGION_REVIEW"

\* C28 witness: a created application went through the regional approval, the step
\* whose name suggests REGION_REVIEW, and is in NATIONAL_REVIEW.
C28_Witness ==
    /\ resp.status = 200
    /\ resp.action = "region_approve"
    /\ resp.from = "SUBMITTED"
    /\ apps[resp.appId].state = "NATIONAL_REVIEW"

\* C29: no dead end.  Every non-terminal state has a legal action, and APPROVED and
\* REJECTED are both reachable from it by legal actions; a decision is not guaranteed,
\* because SUBMITTED -> REQUESTED_CHANGES -> SUBMITTED is a cycle of legal actions.
\* Checked of the state of every stored application and of every state of the enum.
RECURSIVE ReachableFrom(_)
ReachableFrom(S) ==
    LET T == S \cup {nextState[a] : a \in UNION {allowed[st] : st \in S}}
    IN  IF T = S THEN S ELSE ReachableFrom(T)

Decidable(st) ==
    st \notin Terminal => (allowed[st] # {} /\ Terminal \subseteq ReachableFrom({st}))

C29_NoDeadEnd ==
    /\ \A id \in 1..Len(apps) : Decidable(apps[id].state)
    /\ \A st \in AppState : Decidable(st)
    /\ \A st \in Terminal : allowed[st] = {}
    /\ can("SUBMITTED", "request_info")
    /\ can(nextState["request_info"], "submit")
    /\ nextState["submit"] = "SUBMITTED"

\* C29 witness: an application went round the cycle, from SUBMITTED through
\* REQUESTED_CHANGES back to SUBMITTED, and is still undecided.
C29_Witness ==
    \E id \in 1..Len(apps) :
        /\ Len(events[id]) = 2
        /\ events[id][1].action = "request_info"
        /\ events[id][2].action = "submit"
        /\ apps[id].state = "SUBMITTED"

\* C30: on every transition endpoint the principal is established before the role
\* check: a request for an action that is legal on a stored application, carrying the
\* valid token of a user whose role the route lists, is not answered 401 by requireRole.
C30_PrincipalEstablished ==
    \A id \in 1..Len(apps), a \in Transition, token \in UserIds :
        (can(apps[id].state, a) /\ roleOf[token] \in routeRoles[a]) =>
            requireRole(routeRoles[a], reqUser(a, token)) # 401
====
